---- MODULE Spec2Model ----
(***************************************************************************)
(* External build-system plugins of the cargo fork joehendrix/alen:        *)
(*   src/cargo/core/external.rs            ExternalBuildMgr                *)
(*   src/cargo/core/compiler/build_context/external_language.rs            *)
(*                                         LanguageOps                     *)
(*                                                                         *)
(* Several state machines share this module.                               *)
(*   SpecReg  registry construction (the directory scan of                 *)
(*            ExternalBuildMgr::new, then of LanguageOps::new, over one    *)
(*            filesystem) followed by lookups.                             *)
(*   Spec     one `targets` protocol invocation per caller against a       *)
(*            built registry: the host's blocking steps interleaved with   *)
(*            the steps of an arbitrary child process, over two pipes.     *)
(*   SpecLookup, SpecFair, SpecPar, SpecSession and SpecHash are variants  *)
(*   of these, each introduced where it is used.                           *)
(*                                                                         *)
(* File names and identifiers are sequences of one-character strings, so   *)
(* that prefix/suffix matching and slicing are computed as the code does.  *)
(***************************************************************************)
EXTENDS Naturals, Integers, Sequences, FiniteSets, TLC

VARIABLES
    \* ---- the environment of the registry scan
    platform,       \* "unix" | "windows": which cfg(...) branch was compiled
    fs,             \* directory -> set of directory entries it holds
    search_paths,   \* the ordered search path handed to new()
    \* ---- the scan
    phase,          \* "ext" (ExternalBuildMgr::new runs), "lang" (LanguageOps::new runs), "ready"
    dirIdx,         \* number of search_paths elements whose read_dir was started
    pending,        \* entries of the current directory the iterator has not yielded yet
    build_systems,  \* ExternalBuildMgr.build_systems : identifier -> BuildSystem
    languages,      \* LanguageOps.languages          : identifier -> LanguageRunner
    keys_order,     \* registry -> the order in which HashMap::keys() visits its keys
    lastLookup,     \* the latest lookup and what it returned
    \* ---- the protocol invocations
    inv             \* caller -> state of its `targets` call, its child and the two pipes

vars == <<platform, fs, search_paths, phase, dirIdx, pending, build_systems,
          languages, keys_order, lastLookup, inv>>

regVars == <<platform, fs, search_paths, phase, dirIdx, pending, build_systems,
             languages, keys_order, lastLookup>>

(***************************************************************************)
(* Bounds of the model.                                                    *)
(***************************************************************************)
\* entries held by one directory
MaxEntries == 3
\* length of the search path
MaxSearch == 2

(***************************************************************************)
(* Strings.                                                                *)
(***************************************************************************)
\* let prefix = "cargobuild-";
prefix == <<"c", "a", "r", "g", "o", "b", "u", "i", "l", "d", "-">>

\* env::consts::EXE_SUFFIX
EXE_SUFFIX(p) == IF p = "windows" THEN <<".", "e", "x", "e">> ELSE <<>>

\* str::starts_with
starts_with(s, p) == Len(s) >= Len(p) /\ SubSeq(s, 1, Len(p)) = p

\* str::ends_with
ends_with(s, x) == Len(s) >= Len(x) /\ SubSeq(s, Len(s) - Len(x) + 1, Len(s)) = x


\* bitwise AND of two naturals (the `&` of `mode() & 0o111`)
RECURSIVE BitAnd(_, _)
BitAnd(a, b) ==
    IF a = 0 \/ b = 0 THEN 0
    ELSE (a % 2) * (b % 2) + 2 * BitAnd(a \div 2, b \div 2)

(***************************************************************************)
(* The filesystem the scan reads.                                          *)
(*                                                                         *)
(* A directory entry is what read_dir yields for it and what fs::metadata  *)
(* says of its path:                                                       *)
(*   err    the iterator yields Err for this entry                         *)
(*   utf8   the file name is valid UTF-8 (file_name().to_str() is Some)    *)
(*   name   the file name                                                  *)
(*   kind   "file" | "dir" | "gone" (fs::metadata fails)                   *)
(*   mode   the permission bits                                            *)
(*   content   which program the file is (1: any program at all; the       *)
(*             others are the fixed programs of Programs below)            *)
(***************************************************************************)
Dirs == {"d1", "d2", "dx"}

\* directories whose fs::read_dir returns Err (missing, or no read permission)
Unreadable == {"dx"}

Entry(n, k, m) ==
    [err |-> FALSE, utf8 |-> TRUE, name |-> n, kind |-> k, mode |-> m, content |-> 1]

N_a == prefix \o <<"a">>
N_b == prefix \o <<"b">>
N_a_exe == prefix \o <<"a", ".", "e", "x", "e">>
\* `cargobuild` without the dash: not the prefix
N_nodash == <<"c", "a", "r", "g", "o", "b", "u", "i", "l", "d", "a">>

\* modes: 493 = 0o755, 420 = 0o644, 64 = 0o100 (only the owner may execute)
EntryPool ==
    { Entry(N_a, "file", 493),
      Entry(N_a, "file", 420),
      Entry(N_a, "dir", 493),
      Entry(N_b, "file", 64),
      Entry(N_a_exe, "file", 493),
      Entry(N_nodash, "file", 493),
      [Entry(N_b, "file", 493) EXCEPT !.utf8 = FALSE],
      [Entry(N_b, "gone", 0) EXCEPT !.err = TRUE] }

\* the directories whose contents vary
VaryingDirs == Dirs \ Unreadable

\* what the filesystem can hold: the unreadable directory holds an executable
\* cargobuild-a, the other directories hold at most MaxEntries entries in
\* total, no directory holds a name twice
Filesystems ==
    { f \in [Dirs -> { S \in SUBSET EntryPool : Cardinality(S) <= MaxEntries }] :
        /\ \A d \in Unreadable : f[d] = {Entry(N_a, "file", 493)}
        /\ Cardinality({ <<d, e>> \in VaryingDirs \X EntryPool : e \in f[d] })
             <= MaxEntries
        /\ \A d \in VaryingDirs : \A e1, e2 \in f[d] :
             e1.name = e2.name /\ e1.utf8 = e2.utf8 /\ e1.err = e2.err => e1 = e2 }

\* the sequences of at most n distinct elements of S
SeqsUpTo(S, n) ==
    { q \in UNION { [1..k -> S] : k \in 0..n } :
        \A i, j \in 1..Len(q) : i # j => q[i] # q[j] }

\* fs::read_dir(dir).into_iter().flatten().flatten(): an unreadable directory
\* yields nothing, and neither does an entry the iterator fails on
read_dir(d) == IF d \in Unreadable THEN {} ELSE { e \in fs[d] : ~e.err }

(***************************************************************************)
(* is_executable, both cfg branches.                                       *)
(***************************************************************************)
\* 0o111
ExecBits == 73

\* mutant: the permission test without `metadata.is_file()`
is_executable_unix_without_is_file(e) ==
    e.kind # "gone" /\ BitAnd(e.mode, ExecBits) # 0

is_executable_unix(e) == e.kind = "file" /\ BitAnd(e.mode, ExecBits) # 0

is_executable_windows(e) == e.kind = "file"

is_executable(p, e) ==
    IF p = "windows" THEN is_executable_windows(e) ELSE is_executable_unix(e)

(***************************************************************************)
(* The registry: a HashMap from identifier to handle.                      *)
(***************************************************************************)
\* A map is the set of its (key, value) entries, at most one per key.
\* HashMap::new()
HashMap_new == {}

\* HashMap::keys, as a set
keys(map) == { x.key : x \in map }

\* HashMap::get on a key the map holds
get(map, k) == (CHOOSE x \in map : x.key = k).value

\* mutant: an insert of a key the map holds is dropped (first found wins)
HashMap_insert_if_absent(map, k, v) ==
    IF k \in keys(map) THEN map ELSE map \cup { [key |-> k, value |-> v] }

\* HashMap::insert: an insert of a key the map holds replaces its value
HashMap_insert(map, k, v) ==
    { x \in map : x.key # k } \cup { [key |-> k, value |-> v] }

\* dir.join(filename)
join(dir, filename) == [dir |-> dir, file |-> filename]

\* BuildSystem::new / LanguageRunner::new
BuildSystem_new(path) == [path |-> path, hash |-> 0]

\* filename[prefix.len()..end] with end = filename.len() - suffix.len()
build_id(filename, suffix) ==
    SubSeq(filename, Len(prefix) + 1, Len(filename) - Len(suffix))

\* the test `!filename.starts_with(prefix) || !filename.ends_with(suffix)`
\* negated: the file name follows the convention
name_matches(filename, suffix) ==
    starts_with(filename, prefix) /\ ends_with(filename, suffix)

\* the body of `for entry in entries`
scan_entry(map, p, dir, e) ==
    IF ~e.utf8 THEN map
    ELSE IF ~name_matches(e.name, EXE_SUFFIX(p)) THEN map
    ELSE IF is_executable(p, e)
         THEN HashMap_insert(map, build_id(e.name, EXE_SUFFIX(p)),
                             BuildSystem_new(join(dir, e.name)))
         ELSE map

Impls == {"ext", "lang"}

registry(m) == IF m = "ext" THEN build_systems ELSE languages

\* the orders in which an iterator can visit the elements of S
Perms(S) ==
    { s \in [1..Cardinality(S) -> S] :
        \A i, j \in 1..Cardinality(S) : i # j => s[i] # s[j] }



(***************************************************************************)
(* Lookup.                                                                 *)
(***************************************************************************)
Min3(a, b, c) ==
    IF a <= b /\ a <= c THEN a ELSE IF b <= c THEN b ELSE c

\* lexical edit distance (insertions, deletions, substitutions)
RECURSIVE lev_distance(_, _)
lev_distance(a, b) ==
    IF Len(a) = 0 THEN Len(b)
    ELSE IF Len(b) = 0 THEN Len(a)
    ELSE IF Head(a) = Head(b) THEN lev_distance(Tail(a), Tail(b))
    ELSE 1 + Min3(lev_distance(Tail(a), b),
                  lev_distance(a, Tail(b)),
                  lev_distance(Tail(a), Tail(b)))

\* "a small lexical-edit-distance threshold"
MaxSuggestDistance == 3

\* the candidate suggested for `choice` among the identifiers the iterator
\* yields, in the order it yields them: the closest one within the
\* threshold, the first such when several are equally close; <<>> when none
closest(choice, order) ==
    LET near == { i \in 1..Len(order) :
                    lev_distance(choice, order[i]) <= MaxSuggestDistance }
    IN  IF near = {} THEN <<>>
        ELSE LET best == CHOOSE i \in near : \A j \in near :
                           \/ lev_distance(choice, order[j]) > lev_distance(choice, order[i])
                           \/ /\ lev_distance(choice, order[j]) = lev_distance(choice, order[i])
                              /\ j >= i
             IN  <<order[best]>>

\* closest_msg(build_id, suggestions, |c| c): the text appended to the
\* message, here the identifiers it names (none, or the one suggested)
closest_msg(choice, order) == closest(choice, order)

NoHandle == [path |-> join("", <<>>), hash |-> 0]

\* ExternalBuildMgr::build_system / LanguageOps::language_runner on a map
\* whose keys() iterate in `order`; `what` is the message's own text
lookup(map, order, what, id) ==
    IF id \in keys(map)
    THEN [kind |-> "Ok", handle |-> get(map, id), text |-> "", requested |-> <<>>,
          did_you_mean |-> <<>>]
    ELSE [kind |-> "Err", handle |-> NoHandle, text |-> what, requested |-> id,
          did_you_mean |-> closest_msg(id, order)]

\* fn build_system(&self, build_id: &str) -> CargoResult<&BuildSystem>
build_system(id) ==
    lookup(build_systems, keys_order["ext"], "Unknown build system {}{}", id)

\* fn language_runner(&self, lang: &str) -> CargoResult<&LanguageRunner>
language_runner(id) ==
    lookup(languages, keys_order["lang"], "Unknown language {}{}", id)

\* the identifiers callers ask for
RequestIds ==
    { <<"a">>, <<"b">>, <<"c">>, <<"z", "z", "z", "z", "z", "z">> }

\* no lookup made
NoRunner ==
    [kind |-> "none", handle |-> NoHandle, text |-> "", requested |-> <<>>,
     did_you_mean |-> <<>>]

\* what an operation of a registry returns: Ok of a hash, of a list of
\* output files or of a ProcessBuilder (program and arguments), or the Err
\* of the lookup
NoValue ==
    [kind |-> "none", failure |-> NoRunner, hash |-> 0, outputs |-> <<>>,
     program |-> join("", <<>>), args |-> <<>>]

\* the lookup an operation of implementation m starts with
runner_of(m, id) == IF m = "ext" THEN build_system(id) ELSE language_runner(id)

\* pub fn toolchain_hash(&self, build_id: &str) -> CargoResult<u64>
toolchain_hash(m, id) ==
    LET r == runner_of(m, id)
    IN  IF r.kind = "Err" THEN [NoValue EXCEPT !.kind = "Err", !.failure = r]
        ELSE [NoValue EXCEPT !.kind = "Ok", !.hash = r.handle.hash]

\* pub fn outputs(&self, _build_id: &str, _unit: &Unit): Ok(vec![])
outputs(m, id) == [NoValue EXCEPT !.kind = "Ok"]

\* mutant: LanguageOps::compiler without the "build" argument
compiler_lang_without_arg(m, id) ==
    LET r == runner_of(m, id)
    IN  IF r.kind = "Err" THEN [NoValue EXCEPT !.kind = "Err", !.failure = r]
        ELSE [NoValue EXCEPT !.kind = "Ok", !.program = r.handle.path,
                             !.args = IF m = "lang" THEN <<>> ELSE <<"build">>]

\* pub fn compiler(&self, build_id: &str) -> CargoResult<ProcessBuilder>
compiler(m, id) ==
    LET r == runner_of(m, id)
    IN  IF r.kind = "Err" THEN [NoValue EXCEPT !.kind = "Err", !.failure = r]
        ELSE [NoValue EXCEPT !.kind = "Ok", !.program = r.handle.path,
                             !.args = <<"build">>]

NoLookup ==
    [impl |-> "none", op |-> "none", id |-> <<>>, result |-> NoRunner,
     value |-> NoValue]


(***************************************************************************)
(* SpecReg: ExternalBuildMgr::new, then LanguageOps::new.                  *)
(***************************************************************************)
InitReg ==
    /\ platform \in {"unix", "windows"}
    /\ fs \in Filesystems
    /\ search_paths \in SeqsUpTo(Dirs, MaxSearch)
    /\ phase = "ext"
    /\ dirIdx = 0
    /\ pending = {}
    /\ build_systems = HashMap_new
    /\ languages = HashMap_new
    /\ keys_order = [m \in Impls |-> <<>>]
    /\ lastLookup = NoLookup
    /\ inv = [i \in {} |-> 0]

\* mutant: a directory that cannot be listed ends the scan
OpenDir_stop_at_unreadable ==
    /\ phase \in Impls
    /\ pending = {}
    /\ dirIdx < Len(search_paths)
    /\ dirIdx' = IF search_paths[dirIdx + 1] \in Unreadable
                  THEN Len(search_paths) ELSE dirIdx + 1
    /\ pending' = read_dir(search_paths[dirIdx + 1])
    /\ UNCHANGED <<platform, fs, search_paths, phase, build_systems, languages,
                   keys_order, lastLookup, inv>>

\* `for dir in search_paths`: the next directory's read_dir
OpenDir ==
    /\ phase \in Impls
    /\ pending = {}
    /\ dirIdx < Len(search_paths)
    /\ dirIdx' = dirIdx + 1
    /\ pending' = read_dir(search_paths[dirIdx + 1])
    /\ UNCHANGED <<platform, fs, search_paths, phase, build_systems, languages,
                   keys_order, lastLookup, inv>>

\* `for entry in entries`: the iterator yields one more entry, in any order
VisitEntry ==
    /\ phase \in Impls
    /\ \E e \in pending :
         /\ pending' = pending \ {e}
         /\ IF phase = "ext"
            THEN /\ build_systems' =
                      scan_entry(build_systems, platform, search_paths[dirIdx], e)
                 /\ UNCHANGED languages
            ELSE /\ languages' =
                      scan_entry(languages, platform, search_paths[dirIdx], e)
                 /\ UNCHANGED build_systems
    /\ UNCHANGED <<platform, fs, search_paths, phase, dirIdx, keys_order,
                   lastLookup, inv>>

\* `ExternalBuildMgr { build_systems }` / `Ok(LanguageOps { languages })`:
\* the map is complete, and from now on its keys() iterate in one order
FinishNew ==
    /\ phase \in Impls
    /\ pending = {}
    /\ dirIdx = Len(search_paths)
    /\ phase' = IF phase = "ext" THEN "lang" ELSE "ready"
    /\ dirIdx' = 0
    /\ \E o \in Perms(keys(registry(phase))) :
         keys_order' = [keys_order EXCEPT ![phase] = o]
    /\ UNCHANGED <<platform, fs, search_paths, pending, build_systems, languages,
                   lastLookup, inv>>

\* a caller looks an identifier up in one of the two registries
Lookup ==
    /\ phase = "ready"
    /\ \E m \in Impls, id \in RequestIds :
         lastLookup' = [impl |-> m, op |-> "lookup", id |-> id,
                        result |-> IF m = "ext" THEN build_system(id)
                                   ELSE language_runner(id),
                        value |-> NoValue]
    /\ UNCHANGED <<platform, fs, search_paths, phase, dirIdx, pending,
                   build_systems, languages, keys_order, inv>>

\* a caller asks one of the two registries for a toolchain hash
ToolchainHash ==
    /\ phase = "ready"
    /\ \E m \in Impls, id \in RequestIds :
         lastLookup' = [impl |-> m, op |-> "toolchain_hash", id |-> id,
                        result |-> runner_of(m, id),
                        value |-> toolchain_hash(m, id)]
    /\ UNCHANGED <<platform, fs, search_paths, phase, dirIdx, pending,
                   build_systems, languages, keys_order, inv>>

\* a caller asks one of the two registries for the outputs of a unit
Outputs ==
    /\ phase = "ready"
    /\ \E m \in Impls, id \in RequestIds :
         lastLookup' = [impl |-> m, op |-> "outputs", id |-> id,
                        result |-> NoRunner, value |-> outputs(m, id)]
    /\ UNCHANGED <<platform, fs, search_paths, phase, dirIdx, pending,
                   build_systems, languages, keys_order, inv>>

\* a caller asks one of the two registries for the compiler command
Compiler ==
    /\ phase = "ready"
    /\ \E m \in Impls, id \in RequestIds :
         lastLookup' = [impl |-> m, op |-> "compiler", id |-> id,
                        result |-> runner_of(m, id), value |-> compiler(m, id)]
    /\ UNCHANGED <<platform, fs, search_paths, phase, dirIdx, pending,
                   build_systems, languages, keys_order, inv>>

NextReg == OpenDir \/ VisitEntry \/ FinishNew

SpecReg == InitReg /\ [][NextReg]_vars

(***************************************************************************)
(* SpecLookup: lookups in registries new() has built.                      *)
(***************************************************************************)
\* the loop over the entries of one directory, in some order
RECURSIVE scan_dir(_, _, _, _)
scan_dir(map, p, dir, entries) ==
    IF entries = {} THEN map
    ELSE LET e == CHOOSE x \in entries : TRUE
         IN  scan_dir(scan_entry(map, p, dir, e), p, dir, entries \ {e})

\* the executables a looked-up registry is built from
LookupPool ==
    { Entry(N_a, "file", 493), Entry(N_b, "file", 64), Entry(N_a_exe, "file", 493) }

\* both registries were built on POSIX from the search path d1, whatever d1
\* holds, and the keys() of each iterate in some order of their own
InitLookup ==
    /\ platform = "unix"
    /\ fs \in { f \in [Dirs -> SUBSET LookupPool] :
                  f["d2"] = {} /\ f["dx"] = {Entry(N_a, "file", 493)} }
    /\ search_paths = <<"d1">>
    /\ phase = "ready"
    /\ dirIdx = 0
    /\ pending = {}
    /\ build_systems = scan_dir(HashMap_new, platform, "d1", read_dir("d1"))
    /\ languages = build_systems
    /\ keys_order \in [Impls -> Perms(keys(build_systems))]
    /\ lastLookup = NoLookup
    /\ inv = [i \in {} |-> 0]

SpecLookup == InitLookup /\ [][Lookup]_vars


(***************************************************************************)
(* The `targets` protocol: wire values.                                    *)
(*                                                                         *)
(* What a child writes to its stdout is a document:                        *)
(*   utf8      the bytes are valid UTF-8                                   *)
(*   json      the text is one JSON object and nothing else                *)
(*   tags      the keys of that object                                     *)
(*   has       the fields of the variant body                              *)
(*   targets, warnings, errors, message   the values of these fields       *)
(***************************************************************************)
ExtTarget(k, n, p) == [kind |-> k, name |-> n, src_path |-> p]

Doc(tg, hs, ts, ws, es, m) ==
    [utf8 |-> TRUE, json |-> TRUE, tags |-> tg, has |-> hs, targets |-> ts,
     warnings |-> ws, errors |-> es, message |-> m]

SuccessFields == {"targets", "warnings", "errors"}
FailureFields == {"message"}

\* {"Success": {"targets": [{"kind":"Bin","name":"foo","src_path":"src/main"}],
\*              "warnings": [], "errors": []}}
D_one_bin ==
    Doc({"Success"}, SuccessFields, <<ExtTarget("Bin", "foo", "src/main")>>,
        <<>>, <<>>, "")

D_lib_bin ==
    Doc({"Success"}, SuccessFields,
        <<ExtTarget("Lib", "bar", "src/lib"), ExtTarget("Bin", "foo", "src/main")>>,
        <<"w1", "w2">>, <<"e1">>, "")

\* {"Failure": {"message": "missing sources"}}
D_failure == Doc({"Failure"}, FailureFields, <<>>, <<>>, <<>>, "missing sources")

\* both variants in one object
D_hybrid ==
    Doc({"Success", "Failure"}, SuccessFields \cup FailureFields,
        <<ExtTarget("Bin", "foo", "src/main")>>, <<>>, <<>>, "missing sources")

\* a Success body without its "warnings"
D_no_warnings ==
    Doc({"Success"}, {"targets", "errors"},
        <<ExtTarget("Bin", "foo", "src/main")>>, <<>>, <<>>, "")

\* a target kind that is neither "Bin" nor "Lib"
D_bad_kind ==
    Doc({"Success"}, SuccessFields, <<ExtTarget("Dylib", "foo", "src/main")>>,
        <<>>, <<>>, "")

\* text that is not JSON
D_not_json == [Doc({}, {}, <<>>, <<>>, <<>>, "") EXCEPT !.json = FALSE]

\* bytes that are not UTF-8
D_not_text == [Doc({}, {}, <<>>, <<>>, <<>>, "") EXCEPT !.json = FALSE, !.utf8 = FALSE]

Docs ==
    { D_one_bin, D_lib_bin, D_failure, D_hybrid, D_no_warnings, D_bad_kind,
      D_not_json, D_not_text }

\* pieces the serialized request is written in
ReqChunks == 2
\* pieces a child's document is written in, at most
OutChunks == 2
\* pieces a pipe holds before a write to it blocks
PipeCap == 1

\* what the program of an executable file may write, by the file's content:
\* a document and the number of pieces it is written in. 1 is any program,
\* 2 a program that reports a library and a binary with diagnostics, 3 one
\* that reports an in-band failure with a single write
Programs(content) ==
    IF content = 2 THEN {D_lib_bin} \X (1..OutChunks)
    ELSE IF content = 3 THEN {<<D_failure, 1>>}
    ELSE Docs \X (1..OutChunks)

\* the content of the executable file at `path`
content_of(path) ==
    (CHOOSE e \in fs[path.dir] : e.utf8 /\ ~e.err /\ e.name = path.file).content

\* piece k of the bytes of document d, which are n pieces
Chunk(d, k, n) == [doc |-> d, k |-> k, of |-> n]

\* the bytes of document d, in n pieces
Serialize(d, n) == [k \in 1..n |-> Chunk(d, k, n)]

\* String::from_utf8 on what read_to_string collected
valid_utf8(buffer) == \A k \in 1..Len(buffer) : buffer[k].doc.utf8

NoResult ==
    [variant |-> "none", targets |-> <<>>, warnings |-> <<>>, errors |-> <<>>,
     message |-> ""]

\* serde_json::from_str::<TargetResult>(&buffer): the externally tagged enum
\* TargetResult is one object with exactly one key, "Success" or "Failure",
\* whose body has every field of the variant, each ExtTarget kind being
\* "Bin" or "Lib"; anything else, and any input that ends early, is an
\* error (variant "none")
from_str(buffer) ==
    IF buffer = <<>> THEN NoResult
    ELSE IF buffer # Serialize(buffer[1].doc, buffer[1].of) THEN NoResult
    ELSE LET d == buffer[1].doc IN
         IF ~d.json THEN NoResult
         ELSE IF d.tags = {"Success"} /\ SuccessFields \subseteq d.has
                 /\ \A k \in 1..Len(d.targets) : d.targets[k].kind \in {"Bin", "Lib"}
         THEN [variant |-> "Success", targets |-> d.targets,
               warnings |-> d.warnings, errors |-> d.errors, message |-> ""]
         ELSE IF d.tags = {"Failure"} /\ FailureFields \subseteq d.has
         THEN [variant |-> "Failure", targets |-> <<>>, warnings |-> <<>>,
               errors |-> <<>>, message |-> d.message]
         ELSE NoResult

\* ExtTarget::mk_target: the constructor called and its arguments
mk_target(tgt) ==
    IF tgt.kind = "Bin"
    THEN [ctor |-> "Target::bin_target", name |-> tgt.name,
          src_path |-> tgt.src_path, crate_types |-> <<>>,
          edition |-> "Edition2021"]
    ELSE [ctor |-> "Target::lib_target", name |-> tgt.name,
          src_path |-> tgt.src_path, crate_types |-> <<"CrateType::Lib">>,
          edition |-> "Edition2021"]

\* `for tgt in j_tgts { targets.push(tgt.mk_target()?); }`
mk_targets(j_tgts) == [k \in 1..Len(j_tgts) |-> mk_target(j_tgts[k])]

\* mutant: the new elements in front of the old ones
append_in_front(vec, other) == other \o vec

\* Vec::append
append(vec, other) == vec \o other

(***************************************************************************)
(* Exit statuses and results.                                              *)
(***************************************************************************)
\* the child exited with this code / was killed by this signal
Exited(c) == [code |-> c, signal |-> 0]
Killed(sig) == [code |-> -1, signal |-> sig]
NoStatus == [code |-> -1, signal |-> -1]

\* ExitStatus::success
success(ecode) == ecode.signal = 0 /\ ecode.code = 0

\* the codes a child exits with
ExitCodes == {0, 1}

NoPath == join("", <<>>)

\* what `targets` returns: Ok(targets), or Err of the error whose message is
\* `fmt` with its {} filled from `path`, `ecode`, `message`, `requested`,
\* `did_you_mean`
Result(k, f) ==
    [kind |-> k, fmt |-> f, targets |-> <<>>, path |-> NoPath, ecode |-> NoStatus,
     message |-> "", requested |-> <<>>, did_you_mean |-> <<>>]

NotReturned == Result("none", "")

\* Ok(targets)
Ok(targets) == [Result("Ok", "") EXCEPT !.targets = targets]

\* Err(msg) of build_system
ErrUnknown(r) ==
    [Result("Err", r.text) EXCEPT !.requested = r.requested,
                                  !.did_you_mean = r.did_you_mean]

\* mutant: the launch error without the path
ErrLaunch_unnamed(path) == Result("Err", "Could not launch {}")

\* anyhow::format_err!("Could not launch {}", runner.path.display())
ErrLaunch(path) == [Result("Err", "Could not launch {}") EXCEPT !.path = path]

\* the io::Error of a write to a pipe nobody reads, through serde_json and `?`
ErrBrokenPipe == Result("Err", "Broken pipe (os error 32)")

\* the io::Error of read_to_string, through `?`
ErrInvalidUtf8 == Result("Err", "stream did not contain valid UTF-8")

\* .with_context(|| format!("Invalid target result from `{}`", ...));
\* the format string is written here without its two backquotes
ErrInvalidResult(path) ==
    [Result("Err", "Invalid target result from {}") EXCEPT !.path = path]

\* bail!("{} exited with {}", runner.path.display(), ecode)
ErrExited(path, ecode) ==
    [Result("Err", "{} exited with {}") EXCEPT !.path = path, !.ecode = ecode]

\* Err(anyhow::format_err!(message))
ErrMessage(message) == [Result("Err", "{}") EXCEPT !.message = message]

(***************************************************************************)
(* One `targets` call, its child process and the two pipes between them.   *)
(*                                                                         *)
(* Host side                                                               *)
(*   pc           "idle", "start" (called), "write" (in to_writer),        *)
(*                "close_stdin" (to_writer done, stdin not yet dropped),   *)
(*                "read" (in read_to_string), "wait" (in child.wait),      *)
(*                "returned"                                               *)
(*   build_id     the identifier asked for                                 *)
(*   launchable   whether the executable can still be spawned              *)
(*   warnings, errors      the caller's accumulators                       *)
(*   warnings0, errors0    their contents when the call was made           *)
(*   runner       the handle build_system returned                         *)
(*   nwritten     pieces of the request written to the child's stdin       *)
(*   stdin_open, stdout_open   the host holds its end of the pipe          *)
(*   buffer       what read_to_string has collected                        *)
(*   eof          read_to_string has seen the end of the child's stdout    *)
(*   json_result  the parsed TargetResult                                  *)
(*   ret          what the call returned                                   *)
(* Child side                                                              *)
(*   child        "none", "running", "exited" (not waited for: a zombie),  *)
(*                "reaped"                                                 *)
(*   status       its exit status                                          *)
(*   doc, olen    the document its program writes, and in how many pieces  *)
(*   cread        pieces of the request it has read                        *)
(*   cwritten     pieces of doc it has written                             *)
(*   cin_open, cout_open   it, or a process that inherited the end from    *)
(*                it, holds its end of the pipe                            *)
(* The stdin pipe holds nwritten - cread pieces, the stdout pipe           *)
(* cwritten - Len(buffer).                                                 *)
(***************************************************************************)
Callers == {1, 2}

IdleCall ==
    [pc |-> "idle", build_id |-> <<>>, launchable |-> FALSE,
     warnings |-> <<>>, errors |-> <<>>, warnings0 |-> <<>>, errors0 |-> <<>>,
     runner |-> NoHandle, nwritten |-> 0, stdin_open |-> FALSE,
     stdout_open |-> FALSE, buffer |-> <<>>, eof |-> FALSE,
     json_result |-> NoResult, ret |-> NotReturned,
     child |-> "none", status |-> NoStatus, doc |-> D_not_json, olen |-> 0,
     cread |-> 0,
     cwritten |-> 0, cin_open |-> FALSE, cout_open |-> FALSE]

\* targets(build_id, .., warnings, errors) has been called
NewCall(id, l, ws, es) ==
    [IdleCall EXCEPT !.pc = "start", !.build_id = id, !.launchable = l,
                     !.warnings = ws, !.errors = es,
                     !.warnings0 = ws, !.errors0 = es]

\* the registry the calls run against: what new() builds on POSIX for the
\* search path d1, d2 with an executable cargobuild-a in d1 and an executable
\* cargobuild-b in d2
ReadyFs ==
    [d \in Dirs |->
        IF d = "d2" THEN {Entry(N_b, "file", 64)} ELSE {Entry(N_a, "file", 493)}]

ReadyMap ==
    scan_entry(scan_entry(HashMap_new, "unix", "d1", Entry(N_a, "file", 493)),
               "unix", "d2", Entry(N_b, "file", 64))

InitReady ==
    /\ platform = "unix"
    /\ fs = ReadyFs
    /\ search_paths = <<"d1", "d2">>
    /\ phase = "ready"
    /\ dirIdx = 0
    /\ pending = {}
    /\ build_systems = ReadyMap
    /\ languages = ReadyMap
    /\ keys_order = [m \in Impls |-> << <<"a">>, <<"b">> >>]
    /\ lastLookup = NoLookup

\* the arguments of a call
CallArgs ==
    { NewCall(id, l, acc[1], acc[2]) :
        id \in { <<"a">>, <<"c">> }, l \in BOOLEAN,
        acc \in { << <<>>, <<>> >>, << <<"w0">>, <<"e0">> >> } }

\* a call by the first caller is in progress against the built registry;
\* the other caller has made none
Init ==
    /\ InitReady
    /\ inv \in { f \in [Callers -> CallArgs \cup {IdleCall}] :
                   f[1] # IdleCall /\ \A i \in Callers \ {1} : f[i] = IdleCall }

\* every `return`/`?` of targets after the spawn drops `stdin` (if it still
\* holds it), `stdout` and `child`: both pipe ends are closed, the child is
\* neither killed nor waited for
Return(c, r) ==
    [c EXCEPT !.pc = "returned", !.ret = r, !.stdin_open = FALSE,
              !.stdout_open = FALSE]

\* mutant: the match on json_result before the test of the exit status
outcome_match_first(c, ecode) ==
    IF c.json_result.variant = "Failure"
    THEN Return(c, ErrMessage(c.json_result.message))
    ELSE IF ~success(ecode)
    THEN Return(c, ErrExited(c.runner.path, ecode))
    ELSE [Return(c, Ok(mk_targets(c.json_result.targets)))
            EXCEPT !.warnings = append(c.warnings, c.json_result.warnings),
                   !.errors = append(c.errors, c.json_result.errors)]

\* mutant: the diagnostics of a Success response are appended before the
\* exit status is tested
outcome_append_first(c, ecode) ==
    LET a == IF c.json_result.variant = "Success"
             THEN [c EXCEPT !.warnings = append(c.warnings, c.json_result.warnings),
                            !.errors = append(c.errors, c.json_result.errors)]
             ELSE c
    IN  IF ~success(ecode)
        THEN Return(a, ErrExited(c.runner.path, ecode))
        ELSE IF c.json_result.variant = "Success"
        THEN Return(a, Ok(mk_targets(c.json_result.targets)))
        ELSE Return(a, ErrMessage(c.json_result.message))

\* `if !ecode.success() { bail!(..) }` and `match json_result { .. }`
outcome(c, ecode) ==
    IF ~success(ecode)
    THEN Return(c, ErrExited(c.runner.path, ecode))
    ELSE IF c.json_result.variant = "Success"
    THEN [Return(c, Ok(mk_targets(c.json_result.targets)))
            EXCEPT !.warnings = append(c.warnings, c.json_result.warnings),
                   !.errors = append(c.errors, c.json_result.errors)]
    ELSE Return(c, ErrMessage(c.json_result.message))

\* mutant: a plugin that cannot be launched is dropped from the registry
HostSpawn_evicting_stale(i) ==
    /\ inv[i].pc = "start"
    /\ LET c == inv[i]
           r == build_system(c.build_id)
       IN  IF r.kind = "Err"
           THEN /\ inv' = [inv EXCEPT ![i] = [c EXCEPT !.pc = "returned",
                                                       !.ret = ErrUnknown(r)]]
                /\ UNCHANGED build_systems
           ELSE IF ~c.launchable
           THEN /\ inv' = [inv EXCEPT ![i] =
                             [c EXCEPT !.pc = "returned", !.runner = r.handle,
                                       !.ret = ErrLaunch(r.handle.path)]]
                /\ build_systems' = { x \in build_systems : x.key # c.build_id }
           ELSE /\ \E pr \in Programs(content_of(r.handle.path)) :
                     inv' = [inv EXCEPT ![i] =
                               [c EXCEPT !.pc = "write", !.runner = r.handle,
                                         !.stdin_open = TRUE, !.stdout_open = TRUE,
                                         !.child = "running", !.doc = pr[1],
                                         !.olen = pr[2],
                                         !.cin_open = TRUE, !.cout_open = TRUE]]
                /\ UNCHANGED build_systems
    /\ UNCHANGED <<platform, fs, search_paths, phase, dirIdx, pending, languages,
                   keys_order, lastLookup>>

\* `self.build_system(build_id)?` and `command.spawn().map_err(..)?`: the
\* lookup, then the spawn of the plugin with both pipes; the child runs the
\* program of the executable, which is known by the document it is going to
\* write
HostSpawn(i) ==
    /\ inv[i].pc = "start"
    /\ LET c == inv[i]
           r == build_system(c.build_id)
       IN  IF r.kind = "Err"
           THEN inv' = [inv EXCEPT ![i] = [c EXCEPT !.pc = "returned",
                                                    !.ret = ErrUnknown(r)]]
           ELSE IF ~c.launchable
           THEN inv' = [inv EXCEPT ![i] =
                          [c EXCEPT !.pc = "returned", !.runner = r.handle,
                                    !.ret = ErrLaunch(r.handle.path)]]
           ELSE \E pr \in Programs(content_of(r.handle.path)) :
                  inv' = [inv EXCEPT ![i] =
                            [c EXCEPT !.pc = "write", !.runner = r.handle,
                                      !.stdin_open = TRUE, !.stdout_open = TRUE,
                                      !.child = "running", !.doc = pr[1],
                                      !.olen = pr[2],
                                      !.cin_open = TRUE, !.cout_open = TRUE]]
    /\ UNCHANGED regVars

\* serde_json::to_writer(stdin, &req)?: one more write to the child's stdin.
\* With no reader left the write fails (EPIPE) and `?` returns; with the
\* pipe full it blocks.
HostWrite(i) ==
    /\ inv[i].pc = "write"
    /\ LET c == inv[i] IN
         IF ~c.cin_open
         THEN inv' = [inv EXCEPT ![i] = Return(c, ErrBrokenPipe)]
         ELSE /\ c.nwritten - c.cread < PipeCap
              /\ inv' = [inv EXCEPT ![i] =
                           [c EXCEPT !.nwritten = c.nwritten + 1,
                                     !.pc = IF c.nwritten + 1 = ReqChunks
                                            THEN "close_stdin" ELSE "write"]]
    /\ UNCHANGED regVars

\* mutant: to_writer borrows `stdin`, which stays open while the host reads
HostCloseStdin_keep_open(i) ==
    /\ inv[i].pc = "close_stdin"
    /\ inv' = [inv EXCEPT ![i] = [inv[i] EXCEPT !.pc = "read"]]
    /\ UNCHANGED regVars

\* to_writer took `stdin` by value: it is dropped, and so closed, on return
HostCloseStdin(i) ==
    /\ inv[i].pc = "close_stdin"
    /\ inv' = [inv EXCEPT ![i] = [inv[i] EXCEPT !.stdin_open = FALSE,
                                                !.pc = "read"]]
    /\ UNCHANGED regVars

\* mutant: all children write to one pipe, which every call reads
HostRead_shared_pipe(i) ==
    /\ inv[i].pc = "read"
    /\ \E j \in Callers :
         /\ Len(inv[i].buffer) < inv[j].cwritten
         /\ inv' = [inv EXCEPT ![i] =
                      [inv[i] EXCEPT !.buffer =
                         Append(inv[i].buffer,
                                Chunk(inv[j].doc, Len(inv[i].buffer) + 1, inv[j].olen))]]
    /\ UNCHANGED regVars

\* stdout.read_to_string(&mut buffer)?: one more piece from the pipe
HostRead(i) ==
    /\ inv[i].pc = "read"
    /\ Len(inv[i].buffer) < inv[i].cwritten
    /\ inv' = [inv EXCEPT ![i] =
                 [inv[i] EXCEPT !.buffer =
                    Append(inv[i].buffer,
                           Chunk(inv[i].doc, Len(inv[i].buffer) + 1, inv[i].olen))]]
    /\ UNCHANGED regVars

\* mutant: the read gives up as soon as the pipe is empty, writer or not
HostReadEof_on_empty_pipe(i) ==
    /\ inv[i].pc = "read"
    /\ Len(inv[i].buffer) = inv[i].cwritten
    /\ LET c == [inv[i] EXCEPT !.eof = TRUE]
           parsed == from_str(c.buffer)
       IN  IF ~valid_utf8(c.buffer)
           THEN inv' = [inv EXCEPT ![i] = Return(c, ErrInvalidUtf8)]
           ELSE IF parsed.variant = "none"
           THEN inv' = [inv EXCEPT ![i] =
                          Return(c, ErrInvalidResult(c.runner.path))]
           ELSE inv' = [inv EXCEPT ![i] =
                          [c EXCEPT !.json_result = parsed, !.pc = "wait"]]
    /\ UNCHANGED regVars

\* end of file on the child's stdout (the pipe is empty and no writer is
\* left): read_to_string returns, Err when the bytes are not UTF-8; then
\* serde_json::from_str(&buffer).with_context(..)?
HostReadEof(i) ==
    /\ inv[i].pc = "read"
    /\ Len(inv[i].buffer) = inv[i].cwritten
    /\ ~inv[i].cout_open
    /\ LET c == [inv[i] EXCEPT !.eof = TRUE]
           parsed == from_str(c.buffer)
       IN  IF ~valid_utf8(c.buffer)
           THEN inv' = [inv EXCEPT ![i] = Return(c, ErrInvalidUtf8)]
           ELSE IF parsed.variant = "none"
           THEN inv' = [inv EXCEPT ![i] =
                          Return(c, ErrInvalidResult(c.runner.path))]
           ELSE inv' = [inv EXCEPT ![i] =
                          [c EXCEPT !.json_result = parsed, !.pc = "wait"]]
    /\ UNCHANGED regVars

\* child.wait(): blocks until the child has exited, reaps it; then the test
\* of the exit status and the match on the response
HostWait(i) ==
    /\ inv[i].pc = "wait"
    /\ inv[i].child = "exited"
    /\ inv' = [inv EXCEPT ![i] =
                 outcome([inv[i] EXCEPT !.child = "reaped"], inv[i].status)]
    /\ UNCHANGED regVars

\* the child reads one piece of the request
ChildRead(i) ==
    /\ inv[i].child = "running"
    /\ inv[i].cin_open
    /\ inv[i].cread < inv[i].nwritten
    /\ inv' = [inv EXCEPT ![i].cread = inv[i].cread + 1]
    /\ UNCHANGED regVars

\* the child writes the next piece of its document; with no reader left it
\* is killed by SIGPIPE, with the pipe full it blocks
ChildWrite(i) ==
    /\ inv[i].child = "running"
    /\ inv[i].cout_open
    /\ inv[i].cwritten < inv[i].olen
    /\ LET c == inv[i] IN
         IF ~c.stdout_open
         THEN inv' = [inv EXCEPT ![i] =
                        [c EXCEPT !.child = "exited", !.status = Killed(13),
                                  !.cin_open = FALSE, !.cout_open = FALSE]]
         ELSE /\ c.cwritten - Len(c.buffer) < PipeCap
              /\ inv' = [inv EXCEPT ![i].cwritten = c.cwritten + 1]
    /\ UNCHANGED regVars

\* the child, or the process left holding it after the child's exit, closes
\* the child's stdin
ChildCloseStdin(i) ==
    /\ inv[i].child # "none"
    /\ inv[i].cin_open
    /\ inv' = [inv EXCEPT ![i].cin_open = FALSE]
    /\ UNCHANGED regVars

\* the child, or the process left holding it after the child's exit, closes
\* the child's stdout
ChildCloseStdout(i) ==
    /\ inv[i].child # "none"
    /\ inv[i].cout_open
    /\ inv' = [inv EXCEPT ![i].cout_open = FALSE]
    /\ UNCHANGED regVars

\* the child exits. The pipe ends it still holds are closed with it, unless a
\* process it started has inherited them (Command hands the child's stdin
\* and stdout to whatever the plugin runs) and lives on: then they stay open.
ChildExit(i) ==
    /\ inv[i].child = "running"
    /\ \E code \in ExitCodes, inherited \in BOOLEAN :
         inv' = [inv EXCEPT ![i] =
                   [inv[i] EXCEPT !.child = "exited", !.status = Exited(code),
                                  !.cin_open = inherited /\ inv[i].cin_open,
                                  !.cout_open = inherited /\ inv[i].cout_open]]
    /\ UNCHANGED regVars

Next ==
    \E i \in Callers :
        \/ HostSpawn(i)
        \/ HostWrite(i)
        \/ HostCloseStdin(i)
        \/ HostRead(i)
        \/ HostReadEof(i)
        \/ HostWait(i)
        \/ ChildRead(i)
        \/ ChildWrite(i)
        \/ ChildCloseStdin(i)
        \/ ChildCloseStdout(i)
        \/ ChildExit(i)

Spec == Init /\ [][Next]_vars

(***************************************************************************)
(* Claims about the registry (SpecReg).                                    *)
(***************************************************************************)
\* new() of implementation m has returned
Built(m) == IF m = "ext" THEN phase \in {"lang", "ready"} ELSE phase = "ready"

\* the identifiers the claims range over
IdUniverse ==
    { <<>>, <<"a">>, <<"b">>, <<"c">>, <<"a", ".", "e", "x", "e">>,
      <<".", "e", "x", "e">> }

\* the file name the convention gives identifier id
PluginFileName(id) == prefix \o id \o EXE_SUFFIX(platform)

\* the executable check: a regular file, on POSIX with one of the execute
\* bits 0o100, 0o010, 0o001 set
PassesExecutableCheck(e) ==
    /\ e.kind = "file"
    /\ platform = "unix" => \E bit \in {64, 8, 1} : (e.mode \div bit) % 2 = 1

\* directory d holds an entry named for id that passes the executable check
HoldsPlugin(d, id) ==
    \E e \in fs[d] :
        e.utf8 /\ e.name = PluginFileName(id) /\ PassesExecutableCheck(e)

\* the same, of an entry the listing of d yields
YieldsPlugin(d, id) ==
    /\ d \notin Unreadable
    /\ \E e \in fs[d] :
         ~e.err /\ e.utf8 /\ e.name = PluginFileName(id) /\ PassesExecutableCheck(e)

Searched == { search_paths[i] : i \in 1..Len(search_paths) }

\* C7 as stated: once new() has returned, the registry holds id if and only
\* if some searched directory holds an entry named cargobuild-<id><suffix>
\* that passes the executable check, and id then resolves to that entry's
\* path in such a directory.
C7_RegisteredIffHeld ==
    \A m \in Impls : Built(m) =>
        \A id \in IdUniverse \cup keys(registry(m)) :
            /\ id \in keys(registry(m)) <=> \E d \in Searched : HoldsPlugin(d, id)
            /\ id \in keys(registry(m)) =>
                 \E d \in Searched :
                     /\ HoldsPlugin(d, id)
                     /\ lookup(registry(m), <<>>, "", id).handle.path
                          = join(d, PluginFileName(id))

\* C7 amended: once new() has returned, the registry holds id if and only if
\* the listing of some searched directory that can be read yields an entry
\* named cargobuild-<id><suffix> that passes the executable check; every
\* other entry is excluded; id then resolves to that entry's path.
C7_RegisteredIffYielded ==
    \A m \in Impls : Built(m) =>
        \A id \in IdUniverse \cup keys(registry(m)) :
            /\ id \in keys(registry(m)) <=> \E d \in Searched : YieldsPlugin(d, id)
            /\ id \in keys(registry(m)) =>
                 /\ lookup(registry(m), <<>>, "", id).kind = "Ok"
                 /\ \E d \in Searched :
                     /\ YieldsPlugin(d, id)
                     /\ lookup(registry(m), <<>>, "", id).handle.path
                          = join(d, PluginFileName(id))

\* two plugins with distinct identifiers in two different directories are
\* both registered, while an entry of a searched directory is excluded
C7_Witness ==
    /\ phase = "ready"
    /\ \E x, y \in languages :
         x.key # y.key /\ x.value.path.dir # y.value.path.dir
    /\ keys(build_systems) = keys(languages)
    /\ \E d \in Searched \ Unreadable : \E e \in fs[d] :
         \A x \in languages : x.value.path # join(d, e.name)

\* the positions of the search path whose directory yields a runnable
\* executable named for id
Producers(id) ==
    { i \in 1..Len(search_paths) : YieldsPlugin(search_paths[i], id) }

Last(I) == CHOOSE i \in I : \A j \in I : j <= i

\* C8: when runnable executables in two or more search directories produce
\* the same identifier, the built registry holds exactly one entry for it,
\* and its path is the one in the latest of these directories in search-path
\* order, whatever the order in which each directory's entries were yielded.
C8_LaterDirectoryWins ==
    \A m \in Impls : Built(m) =>
        \A id \in IdUniverse :
            Cardinality(Producers(id)) >= 2 =>
                /\ Cardinality({ x \in registry(m) : x.key = id }) = 1
                /\ get(registry(m), id).path
                     = join(search_paths[Last(Producers(id))], PluginFileName(id))

\* both registries were built over two directories producing one identifier
C8_Witness ==
    /\ phase = "ready"
    /\ \E id \in keys(build_systems) \cap keys(languages) :
         Cardinality(Producers(id)) >= 2


(***************************************************************************)
(* Claims about the `targets` protocol (Spec).                             *)
(***************************************************************************)
Returned(i) == inv[i].pc = "returned"

\* the call has spawned a child
Spawned(i) == inv[i].child # "none"

\* the child has terminated
ChildGone(i) == inv[i].child \in {"exited", "reaped"}

\* everything the child wrote to its stdout
Emitted(i) == SubSeq(Serialize(inv[i].doc, inv[i].olen), 1, inv[i].cwritten)

\* the wire schema: document d is a well-formed response of this variant
WellFormedSuccess(d) ==
    /\ d.utf8 /\ d.json /\ d.tags = {"Success"}
    /\ {"targets", "warnings", "errors"} \subseteq d.has
    /\ \A k \in 1..Len(d.targets) : d.targets[k].kind \in {"Bin", "Lib"}

WellFormedFailure(d) ==
    d.utf8 /\ d.json /\ d.tags = {"Failure"} /\ "message" \in d.has

\* the child's entire stdout is the document it was to write
EmittedWhole(i) == inv[i].cwritten = inv[i].olen

\* the child's entire stdout is a well-formed Success / Failure response
EmittedSuccess(i) == EmittedWhole(i) /\ WellFormedSuccess(inv[i].doc)
EmittedFailure(i) == EmittedWhole(i) /\ WellFormedFailure(inv[i].doc)

\* the error kinds of the taxonomy, by the message the code builds
IsExecutionFailure(r, path, ecode) ==
    r.kind = "Err" /\ r.fmt = "{} exited with {}" /\ r.path = path /\ r.ecode = ecode

IsProtocolError(r, path) ==
    r.kind = "Err" /\ r.fmt = "Invalid target result from {}" /\ r.path = path

\* the error's message is exactly m
IsMessage(r, m) == r.kind = "Err" /\ r.fmt = "{}" /\ r.message = m

\* C1 as stated: a child that exits with a non-zero status after emitting a
\* well-formed Success response makes the call return ExecutionFailure
\* naming the executable path and the status, never a target list.
C1_NonZeroExitIsExecutionFailure ==
    \A i \in Callers :
        Returned(i) /\ ChildGone(i) /\ ~success(inv[i].status) /\ EmittedSuccess(i)
            => IsExecutionFailure(inv[i].ret, inv[i].runner.path, inv[i].status)

\* C2 as stated, for the calls that read the child's output to its end:
\* output that is not a well-formed Target Response makes the call return
\* ProtocolError naming the executable path, whatever the exit code.
C2_MalformedOutputIsProtocolError ==
    \A i \in Callers :
        /\ Returned(i) /\ inv[i].eof
        /\ ~(EmittedSuccess(i) \/ EmittedFailure(i))
        => IsProtocolError(inv[i].ret, inv[i].runner.path)

\* C3 as stated: a child that exits with code 0 and whose stdout is a
\* well-formed Failure response with message m makes the call return an
\* error whose message is exactly m.
C3_FailureMessageVerbatim ==
    \A i \in Callers :
        Returned(i) /\ ChildGone(i) /\ inv[i].status = Exited(0) /\ EmittedFailure(i)
            => IsMessage(inv[i].ret, inv[i].doc.message)

\* C4 as stated: whenever the parsed response is the Failure variant, the
\* error returned is the response's message verbatim, whatever the child's
\* exit code.
C4_FailureMessageAnyExit ==
    \A i \in Callers :
        Returned(i) /\ inv[i].json_result.variant = "Failure"
            => IsMessage(inv[i].ret, inv[i].json_result.message)

\* C4 amended: whenever the parsed response is the Failure variant, the
\* error returned is the response's message verbatim if the child's exit
\* status is success, and ExecutionFailure naming the path and the status
\* if it is not: the exit status takes precedence over the parsed body.
C4_FailureMessageIfExitZero ==
    \A i \in Callers :
        Returned(i) /\ inv[i].json_result.variant = "Failure"
            => /\ inv[i].json_result.message = inv[i].doc.message
               /\ IF success(inv[i].status)
                  THEN IsMessage(inv[i].ret, inv[i].doc.message)
                  ELSE IsExecutionFailure(inv[i].ret, inv[i].runner.path,
                                          inv[i].status)

\* a Failure response was parsed and the child exited with a non-zero code
C4_Witness ==
    \E i \in Callers :
        /\ Returned(i) /\ inv[i].json_result.variant = "Failure"
        /\ inv[i].status = Exited(1)

\* the host target the protocol assigns to a descriptor
IsTargetOf(t, tgt) ==
    /\ t.name = tgt.name /\ t.src_path = tgt.src_path
    /\ tgt.kind = "Bin" => t.ctor = "Target::bin_target"
    /\ tgt.kind = "Lib" => t.ctor = "Target::lib_target" /\ t.crate_types = <<"CrateType::Lib">>

\* C5 as stated: a child that exits 0 and whose entire stdout is a
\* well-formed Success response makes the call return Ok with one host
\* target per descriptor, in the response's order, under every interleaving.
C5_SuccessYieldsTargets ==
    \A i \in Callers :
        Returned(i) /\ ChildGone(i) /\ inv[i].status = Exited(0) /\ EmittedSuccess(i)
            => /\ inv[i].ret.kind = "Ok"
               /\ Len(inv[i].ret.targets) = Len(inv[i].doc.targets)
               /\ \A k \in 1..Len(inv[i].doc.targets) :
                    IsTargetOf(inv[i].ret.targets[k], inv[i].doc.targets[k])

\* C6: after a call that returned Ok, the caller's warnings are what they
\* were followed by the response's warnings in order, its errors what they
\* were followed by the response's errors in order; a call whose child
\* exited 0 after a Success response was parsed returns Ok even when the
\* response carries errors.
C6_DiagnosticsAppended ==
    \A i \in Callers :
        /\ Returned(i) /\ inv[i].ret.kind = "Ok"
             => /\ EmittedSuccess(i)
                /\ inv[i].warnings = inv[i].warnings0 \o inv[i].doc.warnings
                /\ inv[i].errors = inv[i].errors0 \o inv[i].doc.errors
        /\ Returned(i) /\ inv[i].json_result.variant = "Success"
                       /\ success(inv[i].status)
             => inv[i].ret.kind = "Ok"

\* a call returned Ok on a response with warnings and errors, into
\* accumulators that were not empty
C6_Witness ==
    \E i \in Callers :
        /\ Returned(i) /\ inv[i].ret.kind = "Ok"
        /\ inv[i].warnings0 # <<>> /\ inv[i].errors0 # <<>>
        /\ Len(inv[i].doc.warnings) >= 2 /\ inv[i].doc.errors # <<>>

\* C10 as stated: whenever a call that spawned a child returns, the child
\* has been waited on and the host's ends of both pipes are closed.
C10_ResourcesReleased ==
    \A i \in Callers :
        Returned(i) /\ Spawned(i)
            => /\ inv[i].child = "reaped"
               /\ ~inv[i].stdin_open
               /\ ~inv[i].stdout_open


(***************************************************************************)
(* Claims about lookup (SpecLookup).                                       *)
(***************************************************************************)
\* C9 as stated: a lookup of an identifier that is not registered returns
\* the unknown-identifier error carrying the requested identifier, with a
\* single suggestion, the closest registered identifier, exactly when some
\* registered identifier is within the threshold; a registered identifier
\* resolves to its handle; and the result depends only on the registry
\* contents and the requested identifier, so it is the same whatever the
\* order in which the map's keys are visited.
C9_LookupDependsOnContentsOnly ==
    lastLookup.impl # "none" =>
        LET r == lastLookup.result
            id == lastLookup.id
            map == registry(lastLookup.impl)
            what == IF lastLookup.impl = "ext" THEN "Unknown build system {}{}"
                    ELSE "Unknown language {}{}"
        IN  /\ id \in keys(map) => r.kind = "Ok" /\ r.handle = get(map, id)
            /\ id \notin keys(map) =>
                 /\ r.kind = "Err" /\ r.text = what /\ r.requested = id
                 /\ r.did_you_mean # <<>> <=>
                      \E k \in keys(map) : lev_distance(id, k) <= MaxSuggestDistance
                 /\ r.did_you_mean # <<>> =>
                      /\ Len(r.did_you_mean) = 1
                      /\ r.did_you_mean[1] \in keys(map)
                      /\ \A k \in keys(map) :
                           lev_distance(id, k) >= lev_distance(id, r.did_you_mean[1])
            /\ \A o \in Perms(keys(map)) : lookup(map, o, what, id) = r


(***************************************************************************)
(* Discovery is best-effort (SpecReg).                                     *)
(***************************************************************************)
\* C14: new() has no failing exit: until it has returned it can take its
\* next step, whatever the search path holds; a directory that cannot be
\* listed and an entry the listing fails on contribute no registry entry;
\* and every plugin yielded by a readable directory of the search path,
\* before or after an unreadable one, is registered.
C14_DiscoveryNeverFails ==
    /\ phase \in Impls => ENABLED NextReg
    /\ \A m \in Impls :
         /\ \A x \in registry(m) :
              /\ x.value.path.dir \in Searched \ Unreadable
              /\ \E e \in fs[x.value.path.dir] : ~e.err /\ e.name = x.value.path.file
         /\ Built(m) =>
              \A d \in Searched \ Unreadable : \A id \in IdUniverse :
                  YieldsPlugin(d, id) => id \in keys(registry(m))

\* both scans went past an unreadable directory first, and then through a
\* directory with an entry the listing fails on and a plugin, now registered
C14_Witness ==
    /\ phase = "ready"
    /\ Len(search_paths) = 2
    /\ search_paths[1] \in Unreadable
    /\ \E e \in fs[search_paths[2]] : e.err
    /\ \E x \in build_systems : x.value.path.dir = search_paths[2]
    /\ \E x \in languages : x.value.path.dir = search_paths[2]

(***************************************************************************)
(* The order of the host's steps, hangs, stale entries and the frame of a  *)
(* failing call (Spec).                                                    *)
(***************************************************************************)
\* the host's position may change from the first to the second of each pair
HostOrder ==
    { <<"start", "write">>, <<"write", "close_stdin">>, <<"close_stdin", "read">>,
      <<"read", "wait">>, <<"wait", "returned">>,
      <<"start", "returned">>, <<"write", "returned">>, <<"read", "returned">> }

\* the results decided from the child's output
FromOutput(r) ==
    \/ r.kind = "Ok"
    \/ r.kind = "Err" /\ r.fmt \in { "{}", "{} exited with {}",
                                     "Invalid target result from {}",
                                     "stream did not contain valid UTF-8" }

\* the state of a call that keeps the order of C15
InOrder(i) ==
    LET c == inv[i] IN
    \* nothing is written before the spawn
    /\ c.nwritten > 0 \/ c.pc \in {"write", "close_stdin", "read", "wait"} => Spawned(i)
    \* reading starts after the whole request is written and stdin is closed
    /\ c.pc \in {"read", "wait"} \/ c.buffer # <<>> \/ c.eof
         => c.nwritten = ReqChunks /\ ~c.stdin_open
    \* the wait starts after the end of stdout
    /\ c.pc = "wait" \/ c.child = "reaped" => c.eof
    \* at the end of stdout the host holds everything the child wrote, and
    \* the child can write no more
    /\ c.eof => ~c.cout_open /\ c.buffer = Emitted(i)
    \* nothing is parsed, and no result decided on the output, before that
    /\ c.json_result.variant # "none" \/ (Returned(i) /\ FromOutput(c.ret)) => c.eof

\* C15: the host's steps happen in the order spawn, write the whole
\* request, close stdin, read stdout to its end, wait (each of them possibly
\* followed by the return of an error); the host never reads before its end
\* of stdin is closed, never waits before the end of stdout, and decides the
\* result only from the complete output.
C15_HostStepsInOrder ==
    /\ [](\A i \in Callers : InOrder(i))
    /\ [][\A i \in Callers : inv[i].pc' # inv[i].pc
                                => <<inv[i].pc, inv[i].pc'>> \in HostOrder]_vars

\* a call went through every step and returned targets
C15_Witness ==
    \E i \in Callers :
        /\ Returned(i) /\ inv[i].ret.kind = "Ok" /\ inv[i].child = "reaped"
        /\ inv[i].nwritten = ReqChunks /\ inv[i].olen = OutChunks

\* some step of the host in call i is possible
HostStep(i) ==
    \/ HostSpawn(i) \/ HostWrite(i) \/ HostCloseStdin(i)
    \/ HostRead(i) \/ HostReadEof(i) \/ HostWait(i)

\* C16: a call for a registered plugin whose executable cannot be launched
\* returns the launch error naming the stored path; no child was spawned
\* and nothing written; the registry still resolves the identifier to the
\* same handle.
C16_StaleEntryIsLaunchFailure ==
    \A i \in Callers :
        /\ Returned(i) /\ ~inv[i].launchable
        /\ inv[i].build_id \in keys(build_systems)
        => /\ inv[i].ret = ErrLaunch(get(build_systems, inv[i].build_id).path)
           /\ inv[i].ret.path = join("d1", prefix \o inv[i].build_id)
           /\ ~Spawned(i) /\ inv[i].nwritten = 0
           /\ build_system(inv[i].build_id).kind = "Ok"
           /\ build_system(inv[i].build_id).handle = inv[i].runner
           /\ build_systems = ReadyMap

\* a call for a registered plugin that could not be launched has returned
C16_Witness ==
    \E i \in Callers :
        /\ Returned(i) /\ ~inv[i].launchable
        /\ inv[i].build_id \in keys(build_systems)
        /\ inv[i].ret.fmt = "Could not launch {}"

\* C17: a call whose request was written in full has not returned as long
\* as its child holds its stdout open (a child that has exited holds
\* nothing); and while that child has nothing more for the host to read, no
\* step of the host is possible.
C17_HangingChildBlocksCall ==
    \A i \in Callers :
        /\ (Returned(i) /\ Spawned(i) /\ inv[i].nwritten = ReqChunks)
             => ~inv[i].cout_open
        /\ (inv[i].pc = "read" /\ inv[i].child = "running" /\ inv[i].cout_open
                /\ Len(inv[i].buffer) = inv[i].cwritten)
             => ~ENABLED HostStep(i)

\* the child has read the request and written its whole response, the host
\* has read all of it, and the child still runs with its stdout open
C17_Witness ==
    \E i \in Callers :
        /\ inv[i].pc = "read" /\ inv[i].child = "running" /\ inv[i].cout_open
        /\ inv[i].cread = ReqChunks
        /\ inv[i].cwritten = inv[i].olen /\ Len(inv[i].buffer) = inv[i].olen
        /\ WellFormedSuccess(inv[i].doc)

\* C19: whenever a call has returned an error, the caller's warnings and
\* errors are what they were when the call was made.
C19_FailedCallLeavesDiagnostics ==
    \A i \in Callers :
        Returned(i) /\ inv[i].ret.kind = "Err"
            => /\ inv[i].warnings = inv[i].warnings0
               /\ inv[i].errors = inv[i].errors0

\* a Success response with warnings and errors was parsed and the call
\* failed on the exit status, with accumulators that were not empty
C19_Witness ==
    \E i \in Callers :
        /\ Returned(i) /\ inv[i].ret.fmt = "{} exited with {}"
        /\ inv[i].json_result.variant = "Success"
        /\ inv[i].json_result.warnings # <<>> /\ inv[i].json_result.errors # <<>>
        /\ inv[i].warnings0 # <<>>

(***************************************************************************)
(* SpecFair: the protocol with a host that takes its next step whenever    *)
(* one is possible (the calling thread is scheduled, and a blocking call   *)
(* returns once it can).  Nothing is assumed of the child or of the        *)
(* processes it starts.                                                    *)
(***************************************************************************)
SpecFair == Init /\ [][Next]_vars /\ \A i \in Callers : WF_vars(HostStep(i))

\* C18 as stated: once the child of a call has exited, the call eventually
\* returns.
C18_ReturnsOnceChildExits ==
    \A i \in Callers : (Spawned(i) /\ ChildGone(i)) ~> Returned(i)

(***************************************************************************)
(* SpecPar: two `targets` calls at once, for two plugins of one registry.  *)
(* cargobuild-a reports a library and a binary with diagnostics,           *)
(* cargobuild-b an in-band failure; each child runs, hangs or exits as it  *)
(* likes.                                                                  *)
(***************************************************************************)
ParFs ==
    [d \in Dirs |->
        IF d = "d1" THEN {[Entry(N_a, "file", 493) EXCEPT !.content = 2]}
        ELSE IF d = "d2" THEN {[Entry(N_b, "file", 64) EXCEPT !.content = 3]}
        ELSE ReadyFs[d]]

InitPar ==
    /\ platform = "unix"
    /\ fs = ParFs
    /\ search_paths = <<"d1", "d2">>
    /\ phase = "ready"
    /\ dirIdx = 0
    /\ pending = {}
    /\ build_systems = scan_dir(scan_dir(HashMap_new, platform, "d1", ParFs["d1"]),
                                platform, "d2", ParFs["d2"])
    /\ languages = build_systems
    /\ keys_order = [m \in Impls |-> << <<"a">>, <<"b">> >>]
    /\ lastLookup = NoLookup
    /\ inv = [i \in Callers |->
                IF i = 1 THEN NewCall(<<"a">>, TRUE, <<"w0">>, <<"e0">>)
                ELSE NewCall(<<"b">>, TRUE, <<>>, <<>>)]

SpecPar == InitPar /\ [][Next]_vars

\* what call c has to return, told from its own arguments, the registry and
\* what its own child wrote and exited with
Verdict(c) ==
    LET r == build_system(c.build_id)
        out == SubSeq(Serialize(c.doc, c.olen), 1, c.cwritten)
        parsed == from_str(out)
    IN  IF r.kind = "Err" THEN ErrUnknown(r)
        ELSE IF ~c.launchable THEN ErrLaunch(r.handle.path)
        ELSE IF ~c.eof THEN ErrBrokenPipe
        ELSE IF ~valid_utf8(out) THEN ErrInvalidUtf8
        ELSE IF parsed.variant = "none" THEN ErrInvalidResult(r.handle.path)
        ELSE IF ~success(c.status) THEN ErrExited(r.handle.path, c.status)
        ELSE IF parsed.variant = "Success" THEN Ok(mk_targets(c.doc.targets))
        ELSE ErrMessage(c.doc.message)

\* the host of call c can take a step, told from its own child and pipes
OwnReady(c) ==
    \/ c.pc \in {"start", "close_stdin"}
    \/ c.pc = "write" /\ (~c.cin_open \/ c.nwritten - c.cread < PipeCap)
    \/ c.pc = "read" /\ (Len(c.buffer) < c.cwritten \/ ~c.cout_open)
    \/ c.pc = "wait" /\ c.child = "exited"

\* call i hangs: its child has written everything, runs on and keeps its
\* stdout open
Hung(i) ==
    /\ inv[i].pc = "read" /\ inv[i].child = "running" /\ inv[i].cout_open
    /\ inv[i].cwritten = inv[i].olen /\ Len(inv[i].buffer) = inv[i].olen

\* C12: of two concurrent calls for two plugins, each returns what its own
\* arguments and its own child determine, with its own diagnostics; each
\* can take its next step exactly when its own child and pipes allow it,
\* whatever the other does or fails to do; a step changes the state of one
\* call only, and nothing of the registry.
C12_CallsAreIndependent ==
    /\ [](\A i \in Callers :
            /\ Returned(i) =>
                 /\ inv[i].ret = Verdict(inv[i])
                 /\ inv[i].warnings = inv[i].warnings0
                       \o (IF inv[i].ret.kind = "Ok" THEN inv[i].doc.warnings ELSE <<>>)
                 /\ inv[i].errors = inv[i].errors0
                       \o (IF inv[i].ret.kind = "Ok" THEN inv[i].doc.errors ELSE <<>>)
            /\ ENABLED HostStep(i) <=> OwnReady(inv[i]))
    /\ [][/\ \A i, j \in Callers :
               i # j /\ inv[i]' # inv[i] => inv[j]' = inv[j]
           /\ UNCHANGED regVars]_vars

\* the first call returned its targets, and appended its diagnostics, while
\* the second hangs
C12_Witness ==
    /\ Returned(1) /\ inv[1].ret.kind = "Ok" /\ Len(inv[1].ret.targets) = 2
    /\ Hung(2)

(***************************************************************************)
(* The two implementations compared (SpecReg).                             *)
(***************************************************************************)
\* the identifiers the operations are compared on
ProbeIds ==
    { <<>>, <<"a">>, <<"b">>, <<"c">> } \cup keys(build_systems) \cup keys(languages)

\* C20 as stated: built over the same search path and filesystem, the two
\* registries hold the same identifiers with the same paths, and
\* toolchain_hash, outputs and compiler give the same result in both for
\* every identifier.
C20_SameResults ==
    phase = "ready" =>
        /\ build_systems = languages
        /\ \A id \in ProbeIds :
             /\ toolchain_hash("ext", id) = toolchain_hash("lang", id)
             /\ outputs("ext", id) = outputs("lang", id)
             /\ compiler("ext", id) = compiler("lang", id)

\* x and y, returned for id by ExternalBuildMgr and by LanguageOps, are the
\* same Ok, or are both the unknown-identifier error for id, each in the
\* words of its implementation, with a suggestion in both or in neither
SameUpToMessage(x, y, id) ==
    /\ x.kind = y.kind
    /\ x.kind = "Ok" => x = y
    /\ x.kind = "Err" =>
         /\ x.failure.requested = id /\ y.failure.requested = id
         /\ x.failure.text = "Unknown build system {}{}"
         /\ y.failure.text = "Unknown language {}{}"
         /\ (x.failure.did_you_mean = <<>>) <=> (y.failure.did_you_mean = <<>>)

\* C20 amended: the two registries hold the same identifiers with the same
\* paths; for every identifier each of toolchain_hash, outputs and compiler
\* succeeds in both with the same value (compiler: the path with the single
\* argument "build") or fails in both with the unknown-identifier error of
\* its implementation.
C20_SameUpToErrorText ==
    phase = "ready" =>
        /\ keys(build_systems) = keys(languages)
        /\ \A id \in keys(build_systems) :
             get(build_systems, id).path = get(languages, id).path
        /\ \A id \in ProbeIds :
             LET he == toolchain_hash("ext", id)
                 hl == toolchain_hash("lang", id)
                 ce == compiler("ext", id)
                 cl == compiler("lang", id)
             IN  /\ SameUpToMessage(he, hl, id)
                 /\ SameUpToMessage(outputs("ext", id), outputs("lang", id), id)
                 /\ SameUpToMessage(ce, cl, id)
                 /\ outputs("ext", id).kind = "Ok"
                 /\ id \in keys(build_systems) <=> ce.kind = "Ok"
                 /\ id \in keys(build_systems) <=> he.kind = "Ok"
                 /\ id \in keys(build_systems) =>
                      /\ cl.program = get(build_systems, id).path
                      /\ cl.args = <<"build">>

\* both registries hold two plugins; compiler succeeds in both for one of
\* them, and toolchain_hash fails in both for an identifier neither holds,
\* with different suggestions
C20_Witness ==
    /\ phase = "ready"
    /\ Cardinality(build_systems) >= 2
    /\ \E id \in ProbeIds : compiler("lang", id).kind = "Ok"
    /\ \E id \in ProbeIds :
         /\ toolchain_hash("ext", id).kind = "Err"
         /\ toolchain_hash("ext", id).failure.did_you_mean
              # toolchain_hash("lang", id).failure.did_you_mean

(***************************************************************************)
(* SpecSession: a session over one built registry. Lookups, toolchain_hash, *)
(* outputs and compiler calls on both implementations, in any number and   *)
(* order, while a `targets` call runs and after it has returned.           *)
(***************************************************************************)
InitSession ==
    /\ platform = "unix"
    /\ fs = ParFs
    /\ search_paths = <<"d1", "d2">>
    /\ phase = "ready"
    /\ dirIdx = 0
    /\ pending = {}
    /\ build_systems = scan_dir(scan_dir(HashMap_new, platform, "d1", ParFs["d1"]),
                                platform, "d2", ParFs["d2"])
    /\ languages = build_systems
    /\ keys_order \in [Impls -> Perms(keys(build_systems))]
    /\ lastLookup = NoLookup
    /\ \E id \in { <<"b">>, <<"c">> }, l \in BOOLEAN :
         inv = [i \in Callers |->
                  IF i = 1 THEN NewCall(id, l, <<"w0">>, <<"e0">>) ELSE IdleCall]

NextSession == Lookup \/ ToolchainHash \/ Outputs \/ Compiler \/ Next

SpecSession == InitSession /\ [][NextSession]_vars

\* C13: no step of a session adds, removes or changes an entry of either
\* registry, or the order its keys iterate in; and what the latest operation
\* that looked an identifier up was given, however many steps ago, is what a
\* lookup of that identifier returns now.
C13_RegistryImmutable ==
    /\ [][/\ build_systems' = build_systems
           /\ languages' = languages
           /\ keys_order' = keys_order]_vars
    /\ [](lastLookup.op \in {"lookup", "toolchain_hash", "compiler"}
            => lastLookup.result = runner_of(lastLookup.impl, lastLookup.id))

\* a `targets` call failed to launch a registered plugin, and the compiler
\* command of that plugin was then still handed out
C13_Witness ==
    /\ Returned(1) /\ inv[1].ret.fmt = "Could not launch {}"
    /\ lastLookup.op = "compiler" /\ lastLookup.impl = "ext"
    /\ lastLookup.id = inv[1].build_id
    /\ lastLookup.value.kind = "Ok"
    /\ lastLookup.value.program = inv[1].ret.path

(***************************************************************************)
(* SpecHash: the plugin executables of two identifiers are replaced on disk *)
(* between sessions; each session builds both registries anew over the     *)
(* same search path and asks them for toolchain hashes.                    *)
(***************************************************************************)
\* the contents (builds, versions) a plugin executable may have
Contents == {1, 2, 3}

\* d1 holds cargobuild-a with content ca, d2 holds cargobuild-b with content cb
HashFs(ca, cb) ==
    [d \in Dirs |->
        IF d = "d1" THEN {[Entry(N_a, "file", 493) EXCEPT !.content = ca]}
        ELSE IF d = "d2" THEN {[Entry(N_b, "file", 64) EXCEPT !.content = cb]}
        ELSE ReadyFs[d]]

\* ExternalBuildMgr::new and LanguageOps::new over the search path d1, d2
built_over(files) ==
    scan_dir(scan_dir(HashMap_new, "unix", "d1", files["d1"]),
             "unix", "d2", files["d2"])

InitHash ==
    /\ platform = "unix"
    /\ fs = HashFs(1, 1)
    /\ search_paths = <<"d1", "d2">>
    /\ phase = "ready"
    /\ dirIdx = 0
    /\ pending = {}
    /\ build_systems = built_over(fs)
    /\ languages = built_over(fs)
    /\ keys_order \in [Impls -> Perms(keys(build_systems))]
    /\ lastLookup = NoLookup
    /\ inv = [i \in Callers |-> IdleCall]

\* the plugins are reinstalled, and the next session builds its registries
Upgrade ==
    /\ phase = "ready"
    /\ \E ca \in Contents, cb \in Contents :
         /\ fs' = HashFs(ca, cb)
         /\ build_systems' = built_over(HashFs(ca, cb))
         /\ languages' = built_over(HashFs(ca, cb))
    /\ fs' # fs
    /\ keys_order' \in [Impls -> Perms(keys(build_systems'))]
    /\ lastLookup' = NoLookup
    /\ UNCHANGED <<platform, search_paths, phase, dirIdx, pending, inv>>

NextHash == ToolchainHash \/ Upgrade

SpecHash == InitHash /\ [][NextHash]_vars

\* C11: when the registries are rebuilt over a plugin executable whose
\* content differs from the one the previous registries were built over, the
\* hash of its identifier differs from the previous one; as long as the
\* files are the same, the hash of every identifier stays what it was.
C11_HashTracksToolchain ==
    [][\A m \in Impls, id \in keys(build_systems) :
          LET before == toolchain_hash(m, id)
              after == toolchain_hash(m, id)'
              old == content_of(runner_of(m, id).handle.path)
              new == content_of(runner_of(m, id).handle.path)'
          IN  /\ before.kind = "Ok" /\ after.kind = "Ok"
              /\ (old # new => after.hash # before.hash)
              /\ (fs' = fs => after.hash = before.hash)]_vars
====
